---- MODULE Spec2Model ----
(***************************************************************************)
(* A model of src/parse_kanjidic2_jmdict.py: the extraction of kanjidic2   *)
(* into a radical index and a character-record map (parse_kanjidic2), the  *)
(* linking of the common words of JMdict into the records' compounds, and  *)
(* the emission of kanji-index.json and one file per character.            *)
(*                                                                         *)
(* A Python value that may be None is a sequence of length 0 or 1: None is *)
(* <<>> and the value v is <<v>>.  A character is its code point (ord), a  *)
(* word is a sequence of code points.  A reference to a word_info dict is  *)
(* the position of the JMdict entry that allocated it.                     *)
(***************************************************************************)
EXTENDS Integers, Sequences, FiniteSets, TLC

VARIABLES
    kanjidic,      \* the <character> elements of ./kanjidic2.xml, in document order
    jmdict,        \* the <entry> elements of ./JMdict_e.xml, in document order
    pc,            \* the position of the run
    error,         \* the exception that ended the run, "none" while there is none
    ci,            \* parse_kanjidic2: position of the next selected character
    kanji_index,   \* the 214 buckets of index entries
    kanji_info,    \* the dict literal -> character record
    kanji_keys,    \* the insertion order of the keys of kanji_info
    ei,            \* linking loop: position of the next JMdict entry
    word_infos,    \* the word_info dicts allocated so far, by reference
    index_file,    \* the content of <output_dir>/kanji-index.json, None before it is written
    info_files,    \* the files of <output_dir>/kanji, file name -> content
    wi             \* write_kanji_info: position of the next key of kanji_info

vars == <<kanjidic, jmdict, pc, error, ci, kanji_index, kanji_info, kanji_keys,
          ei, word_infos, index_file, info_files, wi>>

None == <<>>
Some(v) == <<v>>

NumRadicals == 214
CJKFirst == 19968
CJKLast == 40959

(***************************************************************************)
(* Bounds of the inputs.                                                   *)
(***************************************************************************)
MaxChars == 2
MaxIndexChars == 3
MaxEntries == 2
MaxWordEntries == 1

SeqsUpTo(S, n) == UNION {[1..k -> S] : k \in 0..n}

-----------------------------------------------------------------------------
(***************************************************************************)
(* Pure functions of the source.                                           *)
(***************************************************************************)

\* extract_kanji_from_word: the characters of the word in the CJK Unified
\* Ideographs range, in order, repetitions kept.
extract_kanji_from_word(word) ==
    SelectSeq(word, LAMBDA c : c >= CJKFirst /\ c <= CJKLast)

\* get_int_or_none / get_text_or_none: the child's value, or None without child.
get_int_or_none(child) == IF child = None THEN None ELSE Some(child[1])

\* c['grade'] in [1, 2, 3, 4, 5, 6, 8]
Jouyou(grade) == grade # None /\ grade[1] \in {1, 2, 3, 4, 5, 6, 8}

\* The xpath of the loop of parse_kanjidic2: the characters with a cp_value of
\* cp_type jis208, in document order.
SelectedAll(xml) == xml

Selected(xml) == SelectSeq(xml, LAMBDA el : el.jis208)

\* Python's list indexing of a list of length n with the integer i: the
\* 1-based position read, or 0 when it raises IndexError.
ListPosition(i, n) ==
    IF i >= 0 /\ i < n THEN i + 1
    ELSE IF i < 0 /\ i >= -n THEN n + i + 1
    ELSE 0

\* int(el.find("misc/stroke_count").text): the exception it raises ("none" if
\* it returns) and the value it returns.
StrokeCountOrZero(el) ==
    IF el.stroke_count = None THEN [exc |-> "none", val |-> 0]
    ELSE [exc |-> "none", val |-> el.stroke_count[1]]

StrokeCount(el) ==
    IF el.stroke_count = None THEN [exc |-> "AttributeError", val |-> 0]
    ELSE [exc |-> "none", val |-> el.stroke_count[1]]

\* The exception the body of the loop raises for the element, "none" if it
\* completes: el.find("misc/stroke_count").text on a missing child, None - 1,
\* and kanji_index[...] out of range, in the order the body evaluates them.
RaisedBy(el) ==
    IF StrokeCount(el).exc # "none" THEN StrokeCount(el).exc
    ELSE IF get_int_or_none(el.radical) = None THEN "TypeError"
    ELSE IF ListPosition(el.radical[1] - 1, NumRadicals) = 0 THEN "IndexError"
    ELSE "none"

\* The dict c built by the body of the loop.
CharacterRecord(el) ==
    [literal     |-> el.literal,
     radical     |-> get_int_or_none(el.radical)[1],
     grade       |-> get_int_or_none(el.grade),
     jouyou      |-> Jouyou(get_int_or_none(el.grade)),
     strokeCount |-> StrokeCount(el).val,
     on          |-> el.on,
     kun         |-> el.kun,
     meanings    |-> [j \in 1..Len(SelectSeq(el.meanings, LAMBDA m : m.attrs = 0))
                        |-> SelectSeq(el.meanings, LAMBDA m : m.attrs = 0)[j].text],
     compounds   |-> <<>>]

\* The entry appended to the bucket.
IndexEntry(c) ==
    [literal |-> c.literal, jouyou |-> c.jouyou, strokeCount |-> c.strokeCount]

\* sorted(g, key=strokeCount): an insertion sort that places an entry after
\* the entries of the same key (Python's sort is stable).
RECURSIVE InsertByStroke(_, _)
InsertByStroke(e, s) ==
    IF s = <<>> THEN <<e>>
    ELSE IF Head(s).strokeCount <= e.strokeCount
         THEN <<Head(s)>> \o InsertByStroke(e, Tail(s))
         ELSE <<e>> \o s

RECURSIVE InsertBeforeTies(_, _)
InsertBeforeTies(e, s) ==
    IF s = <<>> THEN <<e>>
    ELSE IF Head(s).strokeCount < e.strokeCount
         THEN <<Head(s)>> \o InsertBeforeTies(e, Tail(s))
         ELSE <<e>> \o s

RECURSIVE SortedUnstable(_)
SortedUnstable(g) ==
    IF g = <<>> THEN <<>>
    ELSE InsertBeforeTies(g[Len(g)], SortedUnstable(SubSeq(g, 1, Len(g) - 1)))

RECURSIVE SortedByStrokeCount(_)
SortedByStrokeCount(g) ==
    IF g = <<>> THEN <<>>
    ELSE InsertByStroke(g[Len(g)], SortedByStrokeCount(SubSeq(g, 1, Len(g) - 1)))

\* kanji_info[k] = c: a new key goes to the end of the dict's order, an
\* existing key keeps its place.
DictSet(d, k, v) == [x \in DOMAIN d \cup {k} |-> IF x = k THEN v ELSE d[x]]
DictOrder(keys, k) ==
    IF \E j \in 1..Len(keys) : keys[j] = k THEN keys ELSE Append(keys, k)

\* entry.find(".//ke_pri/../keb"): the keb of the first k_ele, in document
\* order, that has a ke_pri child; None when no k_ele has one.
FindKebAny(entry) ==
    IF entry.k_eles = <<>> THEN None ELSE Some(Head(entry.k_eles).keb)

RECURSIVE LastPriKeb(_)
LastPriKeb(k_eles) ==
    IF k_eles = <<>> THEN None
    ELSE IF k_eles[Len(k_eles)].pri THEN Some(k_eles[Len(k_eles)].keb)
    ELSE LastPriKeb(SubSeq(k_eles, 1, Len(k_eles) - 1))

FindKebLast(entry) == LastPriKeb(entry.k_eles)

RECURSIVE FirstPriKeb(_)
FirstPriKeb(k_eles) ==
    IF k_eles = <<>> THEN None
    ELSE IF Head(k_eles).pri THEN Some(Head(k_eles).keb)
    ELSE FirstPriKeb(Tail(k_eles))

FindKeb(entry) == FirstPriKeb(entry.k_eles)

\* entry.findall(".//re_pri/../reb"): the rebs of the r_eles with a re_pri.
PriReadings(entry) ==
    [j \in 1..Len(SelectSeq(entry.r_eles, LAMBDA r : r.pri))
        |-> SelectSeq(entry.r_eles, LAMBDA r : r.pri)[j].reb]

\* entry.findall(".//gloss"): the glosses of all senses, in document order.
RECURSIVE Glosses(_)
Glosses(senses) ==
    IF senses = <<>> THEN <<>> ELSE Head(senses) \o Glosses(Tail(senses))

\* The word_info dict of a qualifying entry.
WordInfo(entry) ==
    [word     |-> FindKeb(entry)[1],
     readings |-> PriReadings(entry),
     meanings |-> Glosses(entry.senses)]

\* kanji_info[k]["compounds"].append(word_info)
ReplaceCompounds(info, k, ref) ==
    [info EXCEPT ![k].compounds = <<ref>>]

AppendCompound(info, k, ref) ==
    [info EXCEPT ![k].compounds = Append(@, ref)]

\* for k in extract_kanji_from_word(word): if k in kanji_info: append.
RECURSIVE LinkFirstOnly(_, _, _)
LinkFirstOnly(info, ks, ref) ==
    IF ks = <<>> THEN info
    ELSE IF Head(ks) \in DOMAIN info
         THEN AppendCompound(info, Head(ks), ref)
         ELSE LinkFirstOnly(info, Tail(ks), ref)

RECURSIVE LinkKanji(_, _, _)
LinkKanji(info, ks, ref) ==
    IF ks = <<>> THEN info
    ELSE IF Head(ks) \in DOMAIN info
         THEN LinkKanji(AppendCompound(info, Head(ks), ref), Tail(ks), ref)
         ELSE LinkKanji(info, Tail(ks), ref)

\* hex(n)[2:]: the lower-case hexadecimal digits of n, no leading zero.
HexChars == <<"0", "1", "2", "3", "4", "5", "6", "7",
              "8", "9", "a", "b", "c", "d", "e", "f">>

RECURSIVE Hex(_)
Hex(n) ==
    IF n < 16 THEN <<HexChars[n + 1]>>
    ELSE Hex(n \div 16) \o <<HexChars[(n % 16) + 1]>>

\* "0" + hex(ord(info["literal"]))[2:] + ".json"
Filename(literal) == <<"0">> \o Hex(literal) \o <<".json">>

\* json.dump(info): the record with every compound written out by value.
Dumped(info, heap) ==
    [info EXCEPT !.compounds = [j \in 1..Len(info.compounds) |-> heap[info.compounds[j]]]]

-----------------------------------------------------------------------------
(***************************************************************************)
(* The run.                                                                *)
(***************************************************************************)

EmptyDict == [x \in {} |-> 0]

\* The state at the call of parse_kanjidic2 (lines 52-53, 103-107).
InitRun ==
    /\ pc = "parse_kanjidic2"
    /\ error = "none"
    /\ ci = 1
    /\ kanji_index = [b \in 1..NumRadicals |-> <<>>]
    /\ kanji_info = EmptyDict
    /\ kanji_keys = <<>>
    /\ ei = 1
    /\ word_infos = EmptyDict
    /\ index_file = None
    /\ info_files = EmptyDict
    /\ wi = 1

\* One pass of the loop of parse_kanjidic2 that completes.
ParseCharacter ==
    /\ pc = "parse_kanjidic2"
    /\ ci <= Len(Selected(kanjidic))
    /\ LET el == Selected(kanjidic)[ci] IN
         /\ RaisedBy(el) = "none"
         /\ LET c == CharacterRecord(el)
                b == ListPosition(c.radical - 1, NumRadicals)
            IN /\ kanji_index' = [kanji_index EXCEPT ![b] = Append(@, IndexEntry(c))]
               /\ kanji_info' = DictSet(kanji_info, c.literal, c)
               /\ kanji_keys' = DictOrder(kanji_keys, c.literal)
    /\ ci' = ci + 1
    /\ UNCHANGED <<kanjidic, jmdict, pc, error, ei, word_infos, index_file, info_files, wi>>

\* One pass of the loop of parse_kanjidic2 that raises: nothing catches the
\* exception and the run ends.
ParseCharacterRaise ==
    /\ pc = "parse_kanjidic2"
    /\ ci <= Len(Selected(kanjidic))
    /\ RaisedBy(Selected(kanjidic)[ci]) # "none"
    /\ pc' = "failed"
    /\ error' = RaisedBy(Selected(kanjidic)[ci])
    /\ UNCHANGED <<kanjidic, jmdict, ci, kanji_index, kanji_info, kanji_keys,
                   ei, word_infos, index_file, info_files, wi>>

\* The end of parse_kanjidic2: every bucket sorted, the pair returned.
SortIndex ==
    /\ pc = "parse_kanjidic2"
    /\ ci > Len(Selected(kanjidic))
    /\ kanji_index' = [b \in 1..NumRadicals |-> SortedByStrokeCount(kanji_index[b])]
    /\ pc' = "link"
    /\ UNCHANGED <<kanjidic, jmdict, error, ci, kanji_info, kanji_keys,
                   ei, word_infos, index_file, info_files, wi>>

\* One pass of the linking loop over an entry without flagged written form.
SkipEntry ==
    /\ pc = "link"
    /\ ei <= Len(jmdict)
    /\ FindKeb(jmdict[ei]) = None
    /\ ei' = ei + 1
    /\ UNCHANGED <<kanjidic, jmdict, pc, error, ci, kanji_index, kanji_info,
                   kanji_keys, word_infos, index_file, info_files, wi>>

\* One pass of the linking loop over a qualifying entry.
LinkEntry ==
    /\ pc = "link"
    /\ ei <= Len(jmdict)
    /\ FindKeb(jmdict[ei]) # None
    /\ word_infos' = DictSet(word_infos, ei, WordInfo(jmdict[ei]))
    /\ kanji_info' = LinkKanji(kanji_info,
                               extract_kanji_from_word(WordInfo(jmdict[ei]).word), ei)
    /\ ei' = ei + 1
    /\ UNCHANGED <<kanjidic, jmdict, pc, error, ci, kanji_index, kanji_keys,
                   index_file, info_files, wi>>

\* with open(output_dir + "/kanji-index.json", "w"): write_kanji_index.
WriteKanjiIndex ==
    /\ pc = "link"
    /\ ei > Len(jmdict)
    /\ index_file' = Some(kanji_index)
    /\ pc' = "write_kanji_info"
    /\ UNCHANGED <<kanjidic, jmdict, error, ci, kanji_index, kanji_info, kanji_keys,
                   ei, word_infos, info_files, wi>>

\* One pass of the loop of write_kanji_info.
WriteKanjiInfo ==
    /\ pc = "write_kanji_info"
    /\ wi <= Len(kanji_keys)
    /\ LET info == kanji_info[kanji_keys[wi]] IN
         info_files' = DictSet(info_files, Filename(info.literal), Dumped(info, word_infos))
    /\ wi' = wi + 1
    /\ UNCHANGED <<kanjidic, jmdict, pc, error, ci, kanji_index, kanji_info,
                   kanji_keys, ei, word_infos, index_file>>

\* The end of the module.
Terminate ==
    /\ pc = "write_kanji_info"
    /\ wi > Len(kanji_keys)
    /\ pc' = "done"
    /\ UNCHANGED <<kanjidic, jmdict, error, ci, kanji_index, kanji_info, kanji_keys,
                   ei, word_infos, index_file, info_files, wi>>

Next ==
    \/ ParseCharacter
    \/ ParseCharacterRaise
    \/ SortIndex
    \/ SkipEntry
    \/ LinkEntry
    \/ WriteKanjiIndex
    \/ WriteKanjiInfo
    \/ Terminate

-----------------------------------------------------------------------------
(***************************************************************************)
(* The input documents.                                                    *)
(***************************************************************************)

\* U+5143 and U+6C17, the two characters the reference documents describe;
\* U+4E00, an ideograph they do not describe; U+3064, a hiragana.
Gen == CJKFirst + 835
Ki == CJKFirst + 7703
Literals == {Gen, Ki}
Ichi == CJKFirst
Tsu == CJKFirst - 7580

\* The rmgroup of a character: fixed by the literal.
OnOf(lit) == IF lit = Gen THEN <<"gen", "gan">> ELSE <<"ki", "ke">>
KunOf(lit) == IF lit = Gen THEN <<"moto">> ELSE <<>>
MeaningsOf(lit) ==
    IF lit = Gen
    THEN <<[text |-> "beginning", attrs |-> 0], [text |-> "commencement", attrs |-> 1],
           [text |-> "origin", attrs |-> 0]>>
    ELSE <<[text |-> "spirit", attrs |-> 0]>>

Character(jis, lit, rad, gr, sc) ==
    [jis208 |-> jis, literal |-> lit, radical |-> rad, grade |-> gr,
     stroke_count |-> sc, on |-> OnOf(lit), kun |-> KunOf(lit),
     meanings |-> MeaningsOf(lit)]

\* A character without a jis208 code point.
OtherCharacter == Character(FALSE, Ki, Some(1), None, Some(1))

\* Characters for the failures of the extraction: U+5143 without grade,
\* U+6C17 with grade 8.
KanjiEls ==
    {OtherCharacter} \cup
    {Character(TRUE, lit, rad, IF lit = Gen THEN None ELSE Some(8), sc) :
        lit \in Literals,
        rad \in {None, Some(-NumRadicals), Some(0), Some(1), Some(NumRadicals + 1)},
        sc \in {None, Some(1)}}

\* Characters for the radical index: U+5143 with grade 1 and radical 214,
\* U+6C17 with grade 7 and radical 0 (which indexes the last bucket too) or 1,
\* and one character without stroke count.
IndexEls ==
    {OtherCharacter, Character(TRUE, Gen, Some(1), Some(1), None)} \cup
    {Character(TRUE, Gen, Some(NumRadicals), Some(1), sc) : sc \in {Some(1), Some(2)}} \cup
    {Character(TRUE, Ki, rad, Some(7), sc) :
        rad \in {Some(0), Some(1)}, sc \in {Some(1), Some(2)}}

Word1 == <<Gen, Ichi, Ki>>
Word2 == <<Gen, Tsu, Gen>>
Word3 == <<Ki>>

REles1 == <<[reb |-> "genki", pri |-> TRUE], [reb |-> "genke", pri |-> FALSE]>>
REles2 == <<[reb |-> "gen", pri |-> FALSE]>>
Senses1 == <<<<"health", "vigour">>, <<"lively">>>>
Senses2 == <<<<"one by one">>>>

\* The k_ele lists over a set of words: every written form at most once.
KEleLists(words) ==
    {s \in SeqsUpTo([keb : words, pri : BOOLEAN], Cardinality(words)) :
        \A i, j \in 1..Len(s) : i # j => s[i].keb # s[j].keb}

\* The entries over a set of words: the readings and senses are fixed by the
\* first written form.
EntriesOver(words) ==
    {[k_eles |-> ks,
      r_eles |-> IF ks # <<>> /\ ks[1].keb = Word1 THEN REles1 ELSE REles2,
      senses |-> IF ks # <<>> /\ ks[1].keb = Word1 THEN Senses1 ELSE Senses2] :
        ks \in KEleLists(words)}

LinkEntries == EntriesOver({Word1, Word2})
WordEntries == EntriesOver({Word1, Word2, Word3})

KanjidicSample ==
    <<Character(TRUE, Gen, Some(10), Some(2), Some(4)),
      Character(TRUE, Ki, Some(84), Some(1), Some(6))>>
KanjidicBroken ==
    <<Character(TRUE, Gen, Some(10), Some(2), None)>>
JmdictSample ==
    <<[k_eles |-> <<[keb |-> Word1, pri |-> TRUE]>>, r_eles |-> REles1, senses |-> Senses1],
      [k_eles |-> <<[keb |-> Word2, pri |-> FALSE]>>, r_eles |-> REles2, senses |-> Senses2]>>

\* The failures of the extraction.
Init ==
    /\ kanjidic \in SeqsUpTo(KanjiEls, MaxChars)
    /\ jmdict = JmdictSample
    /\ InitRun
Spec == Init /\ [][Next]_vars

\* The radical index.
InitIndex ==
    /\ kanjidic \in SeqsUpTo(IndexEls, MaxIndexChars)
    /\ jmdict = JmdictSample
    /\ InitRun
SpecIndex == InitIndex /\ [][Next]_vars

\* The linking of several entries.
InitLink ==
    /\ kanjidic \in {KanjidicSample, KanjidicBroken}
    /\ jmdict \in SeqsUpTo(LinkEntries, MaxEntries)
    /\ InitRun
SpecLink == InitLink /\ [][Next]_vars

\* The choice of the written form of one entry.
InitWord ==
    /\ kanjidic \in {KanjidicSample, KanjidicBroken}
    /\ jmdict \in SeqsUpTo(WordEntries, MaxWordEntries)
    /\ InitRun
SpecWord == InitWord /\ [][Next]_vars

-----------------------------------------------------------------------------
(***************************************************************************)
(* Properties.                                                             *)
(***************************************************************************)

Range(f) == {f[x] : x \in DOMAIN f}
Jis208Chars == SelectSeq(kanjidic, LAMBDA el : el.jis208)
AfterExtraction == pc \in {"link", "write_kanji_info", "done"}
NoOutput == index_file = None /\ DOMAIN info_files = {}
ValidRadical(el) == el.radical # None /\ el.radical[1] \in 1..NumRadicals
\* The positions <<bucket, place>> of the radical index.
NonEmptyBuckets == {b \in 1..NumRadicals : kanji_index[b] # <<>>}
IndexPlaces ==
    UNION {{<<b, p>> : p \in 1..Len(kanji_index[b])} : b \in NonEmptyBuckets}
IndexPlacesOf(lit) ==
    {bp \in IndexPlaces : kanji_index[bp[1]][bp[2]].literal = lit}
Jis208PlacesOf(lit) ==
    {j \in 1..Len(kanjidic) : kanjidic[j].jis208 /\ kanjidic[j].literal = lit}
\* The number of times x occurs in the sequence s.
Count(s, x) == Cardinality({j \in 1..Len(s) : s[j] = x})
\* The entry has a written form with a priority flag.
HasPriForm(entry) == \E j \in 1..Len(entry.k_eles) : entry.k_eles[j].pri

\* C1: when a character with a jis208 code point has no stroke_count, the run
\* never gets past that character, it ends failed, and neither kanji-index.json
\* nor a file per character is ever written.
C1_MissingStrokeCountFailsBeforeOutput ==
    \A j \in 1..Len(Jis208Chars) :
        Jis208Chars[j].stroke_count = None =>
            /\ pc \in {"parse_kanjidic2", "failed"}
            /\ ci <= j
            /\ (ci = j => pc = "failed" \/ ~ENABLED ParseCharacter)
            /\ NoOutput

C1_Witness ==
    /\ pc = "failed"
    /\ error = "AttributeError"
    /\ ci = 2
    /\ kanji_keys # <<>>
    /\ NoOutput

\* C2: a character with a jis208 code point whose classical radical is an
\* integer outside 1..214 is never processed to completion: the extraction
\* ends failed at it, and no index is returned.
C2_RadicalOutOfRangeAborts ==
    \A j \in 1..Len(Jis208Chars) :
        (Jis208Chars[j].radical # None /\ ~ValidRadical(Jis208Chars[j])) =>
            /\ pc \in {"parse_kanjidic2", "failed"}
            /\ ci <= j

\* C3: the extraction never fails at a character that has a stroke count and
\* whose only shortcoming is a missing grade or a missing classical radical.
C3_MissingOptionalNeverRaises ==
    pc = "failed" =>
        LET el == Jis208Chars[ci] IN
            \/ el.stroke_count = None
            \/ (el.radical # None /\ ~ValidRadical(el))

\* C4 as stated: after the extraction every character of the document with a
\* stroke count has a record, and its literal names exactly one index entry.
C4_OneRecordPerCharacter ==
    AfterExtraction =>
        \A j \in 1..Len(kanjidic) :
            kanjidic[j].stroke_count # None =>
                /\ kanjidic[j].literal \in DOMAIN kanji_info
                /\ Cardinality(IndexPlacesOf(kanjidic[j].literal)) = 1

\* C4 as amended: after the extraction the map holds exactly one record for
\* each literal of the characters with a jis208 code point, under that literal,
\* and none for other characters; the radical index holds one entry for each
\* such character element; when the run is done there is one file per record.
C4_OneRecordPerSelectedLiteral ==
    AfterExtraction =>
        /\ DOMAIN kanji_info = {lit \in Literals : Jis208PlacesOf(lit) # {}}
        /\ \A k \in DOMAIN kanji_info : kanji_info[k].literal = k
        /\ Range(kanji_keys) = DOMAIN kanji_info
        /\ Len(kanji_keys) = Cardinality(DOMAIN kanji_info)
        /\ \A lit \in Literals :
               Cardinality(IndexPlacesOf(lit)) = Cardinality(Jis208PlacesOf(lit))
        /\ pc = "done" =>
               /\ Cardinality(DOMAIN info_files) = Cardinality(DOMAIN kanji_info)
               /\ \A k \in DOMAIN kanji_info :
                      Cardinality({f \in DOMAIN info_files : info_files[f].literal = k}) = 1

C4_Witness ==
    /\ pc = "done"
    /\ \E j \in 1..Len(kanjidic) :
           ~kanjidic[j].jis208 /\ kanjidic[j].stroke_count # None
    /\ \E lit \in Literals : Cardinality(Jis208PlacesOf(lit)) = 2

\* The index entry of a character, and the entries of bucket b in the order
\* the document has their characters.
EntryOf(el) ==
    [literal |-> el.literal, jouyou |-> Jouyou(el.grade),
     strokeCount |-> el.stroke_count[1]]
InBucket(b) ==
    SelectSeq(Jis208Chars,
              LAMBDA el : ListPosition(el.radical[1] - 1, NumRadicals) = b)
\* The buckets the characters of the document index.
CharBuckets ==
    {ListPosition(Jis208Chars[j].radical[1] - 1, NumRadicals) : j \in 1..Len(Jis208Chars)}
Encountered(b) == [j \in 1..Len(InBucket(b)) |-> EntryOf(InBucket(b)[j])]

\* C5: in the index parse_kanjidic2 returns, and in kanji-index.json, every
\* bucket is in non-decreasing strokeCount order, and the entries of one
\* strokeCount are the bucket's characters of that strokeCount in document order.
C5_BucketsSortedStable ==
    AfterExtraction =>
        /\ \A b \in NonEmptyBuckets \cup CharBuckets :
               LET g == kanji_index[b] IN
               /\ \A p \in 1..(Len(g) - 1) : g[p].strokeCount <= g[p + 1].strokeCount
               /\ \A sc \in {e.strokeCount : e \in Range(g) \cup Range(Encountered(b))} :
                      SelectSeq(g, LAMBDA e : e.strokeCount = sc)
                          = SelectSeq(Encountered(b), LAMBDA e : e.strokeCount = sc)
        /\ index_file # None => index_file = Some(kanji_index)

C5_Witness ==
    /\ pc = "done"
    /\ \E b \in 1..NumRadicals :
           /\ Len(kanji_index[b]) = 3
           /\ kanji_index[b][1].strokeCount = kanji_index[b][2].strokeCount
           /\ kanji_index[b][1].literal # kanji_index[b][2].literal
           /\ kanji_index[b] # Encountered(b)
           /\ index_file[1][b] = kanji_index[b]

\* C6: an entry without a written form with a priority flag allocates no
\* compound and is referenced by no character's compounds, whatever its
\* readings and glosses; every compound written to a file is that of a
\* qualifying entry.
C6_UnflaggedEntryGivesNoCompound ==
    /\ \A e \in 1..Len(jmdict) :
           ~HasPriForm(jmdict[e]) =>
               /\ e \notin DOMAIN word_infos
               /\ \A k \in DOMAIN kanji_info : Count(kanji_info[k].compounds, e) = 0
    /\ \A f \in DOMAIN info_files :
           \A j \in 1..Len(info_files[f].compounds) :
               \E e \in 1..Len(jmdict) :
                   /\ HasPriForm(jmdict[e])
                   /\ info_files[f].compounds[j] = word_infos[e]

C6_Witness ==
    /\ pc = "done"
    /\ \E e \in 1..Len(jmdict) :
           /\ ~HasPriForm(jmdict[e])
           /\ \E j \in 1..Len(jmdict[e].k_eles) :
                  \E c \in Range(jmdict[e].k_eles[j].keb) : c \in DOMAIN kanji_info
           /\ \E j \in 1..Len(jmdict[e].r_eles) : jmdict[e].r_eles[j].pri
    /\ \E e \in 1..Len(jmdict) : HasPriForm(jmdict[e])

\* C7: when the word of a linked entry has two distinct characters that are
\* keys of the map, both records reference the entry's compound, both files
\* hold it with the same word, readings and meanings, and every compounds
\* sequence is in the order of the entries.
C7_SharedCompoundInBothRecords ==
    /\ \A e \in DOMAIN word_infos :
           \A a, b \in DOMAIN kanji_info \cap Range(word_infos[e].word) :
               a # b =>
                   /\ Count(kanji_info[a].compounds, e) >= 1
                   /\ Count(kanji_info[b].compounds, e) >= 1
                   /\ pc = "done" =>
                          /\ Count(info_files[Filename(a)].compounds, word_infos[e]) >= 1
                          /\ Count(info_files[Filename(b)].compounds, word_infos[e]) >= 1
    /\ \A k \in DOMAIN kanji_info :
           \A i, j \in 1..Len(kanji_info[k].compounds) :
               i < j => kanji_info[k].compounds[i] <= kanji_info[k].compounds[j]

C7_Witness ==
    /\ pc = "done"
    /\ \E e \in DOMAIN word_infos :
           /\ {Gen, Ki} \subseteq Range(word_infos[e].word)
           /\ {Gen, Ki} \subseteq DOMAIN kanji_info
           /\ Count(info_files[Filename(Ki)].compounds, word_infos[e]) >= 1
    /\ \E k \in DOMAIN kanji_info :
           \E i, j \in 1..Len(kanji_info[k].compounds) :
               kanji_info[k].compounds[i] < kanji_info[k].compounds[j]

\* C8: the word of a linked entry is the keb of the first k_ele with a
\* priority flag: no k_ele before it has a flag; and the records that
\* reference the entry are those of the characters of that keb.
C8_FirstFlaggedFormIsTheWord ==
    \A e \in DOMAIN word_infos :
        \E j \in 1..Len(jmdict[e].k_eles) :
            /\ jmdict[e].k_eles[j].pri
            /\ \A i \in 1..(j - 1) : ~jmdict[e].k_eles[i].pri
            /\ word_infos[e].word = jmdict[e].k_eles[j].keb
            /\ \A k \in DOMAIN kanji_info :
                   Count(kanji_info[k].compounds, e) >= 1
                       <=> k \in Range(jmdict[e].k_eles[j].keb)

C8_Witness ==
    /\ pc = "done"
    /\ \E e \in DOMAIN word_infos :
           /\ Len(jmdict[e].k_eles) = 3
           /\ ~jmdict[e].k_eles[1].pri
           /\ jmdict[e].k_eles[2].pri
           /\ jmdict[e].k_eles[3].pri
           /\ jmdict[e].k_eles[1].keb = Word3
           /\ jmdict[e].k_eles[2].keb = Word2
           /\ kanji_info[Gen].compounds # <<>>
           /\ kanji_info[Ki].compounds = <<>>

\* The first sequence is a prefix of the second.
IsPrefix(s, t) == Len(s) <= Len(t) /\ SubSeq(t, 1, Len(s)) = s

\* C9: once the extraction has returned, a step changes the records only by
\* appending to compounds: the keys and their order, every other field and the
\* radical index stay, a word_info once allocated stays as it is, and once
\* kanji-index.json is written neither records nor word_infos change.
C9_LinkingOnlyAppendsCompounds ==
    [][AfterExtraction =>
          /\ DOMAIN kanji_info' = DOMAIN kanji_info
          /\ kanji_keys' = kanji_keys
          /\ kanji_index' = kanji_index
          /\ \A k \in DOMAIN kanji_info :
                 /\ [kanji_info'[k] EXCEPT !.compounds = <<>>]
                        = [kanji_info[k] EXCEPT !.compounds = <<>>]
                 /\ IsPrefix(kanji_info[k].compounds, kanji_info'[k].compounds)
          /\ \A e \in DOMAIN word_infos :
                 e \in DOMAIN word_infos' /\ word_infos'[e] = word_infos[e]
          /\ pc # "link" => kanji_info' = kanji_info /\ word_infos' = word_infos
      ]_vars

C9_Witness ==
    /\ pc = "done"
    /\ \E k \in DOMAIN kanji_info :
           /\ Len(kanji_info[k].compounds) >= 2
           /\ kanji_info[k].on # <<>>
           /\ Len(info_files[Filename(k)].compounds) >= 2

\* C10: a linked entry is referenced once by the record of each character of
\* its word that is a key of the map, and not at all by the other records.
C10_AtMostOneCompoundPerEntry ==
    \A e \in DOMAIN word_infos :
        \A k \in DOMAIN kanji_info :
            Count(kanji_info[k].compounds, e)
                = IF k \in Range(word_infos[e].word) THEN 1 ELSE 0

====
